---------------------------- MODULE Spec2Model ----------------------------
(***************************************************************************)
(* A model of the kickbox API client (kickbox.go): the five public         *)
(* operations, the request builder, the transport invoker and the response *)
(* decoders, run by one or more callers against a stub server.             *)
(*                                                                         *)
(* Strings are sequences of atoms: a word ("verify", "API_VERSION",        *)
(* "a_valid_api_key") or a single delimiter ("/", "{", "}", "?", "&", "=", *)
(* "@", ":").  A percent-escape ("%7B") is one atom.                       *)
(***************************************************************************)
EXTENDS Integers, Sequences, FiniteSets, TLC

VARIABLES
    client,     \* the Client: baseURL, apiKey, httpClient
    Endpoints,  \* the package-level endpoint registry
    server,     \* what the transport stub answers: failure mode, status, body
    pc,         \* each caller's position in its call
    op,         \* the public operation each caller runs
    args,       \* the arguments of the call
    segments,   \* per frame: the segment substitution map
    params,     \* per frame: the query parameter map
    headers,    \* per frame: the header map (VerifyMultiple)
    request,    \* per frame: the built *http.Request
    reply,      \* per frame: what callService returned (body, err)
    ret,        \* per frame: what the public operation returned (result, err)
    doCount,    \* per caller: calls of httpClient.Do made by the current call
    seen        \* per caller: what the caller read off the result's methods

vars == <<client, Endpoints, server, pc, op, args, segments, params, headers,
          request, reply, ret, doCount, seen>>

-----------------------------------------------------------------------------
(* Bounds *)

\* Job ids run over -1..MaxSmallJob and the job id of the tests.
MaxSmallJob == 1

-----------------------------------------------------------------------------
(* Sequences of atoms *)

Range(f) == {f[i] : i \in DOMAIN f}

RECURSIVE Concat(_)
Concat(ss) == IF ss = <<>> THEN <<>> ELSE Head(ss) \o Concat(Tail(ss))

HasPrefix(s, pre) == Len(s) >= Len(pre) /\ SubSeq(s, 1, Len(pre)) = pre

\* strings.Replace(s, old, new, -1) for a non-empty old: every non-overlapping
\* occurrence, left to right.
RECURSIVE Replace(_, _, _)
Replace(s, old, new) ==
    IF Len(s) < Len(old) THEN s
    ELSE IF HasPrefix(s, old)
         THEN new \o Replace(SubSeq(s, Len(old) + 1, Len(s)), old, new)
         ELSE <<Head(s)>> \o Replace(Tail(s), old, new)

\* Index of the first occurrence of atom a in s, 0 when absent.
RECURSIVE IndexOf(_, _)
IndexOf(s, a) ==
    IF s = <<>> THEN 0
    ELSE IF Head(s) = a THEN 1
    ELSE LET i == IndexOf(Tail(s), a) IN IF i = 0 THEN 0 ELSE i + 1

\* strings.Cut(s, sep): before, after, found.
Cut(s, a) ==
    LET i == IndexOf(s, a) IN
    IF i = 0 THEN [before |-> s, after |-> <<>>, found |-> FALSE]
    ELSE [before |-> SubSeq(s, 1, i - 1),
          after  |-> SubSeq(s, i + 1, Len(s)),
          found  |-> TRUE]

\* strings.Split(s, sep) on a one-atom separator.
RECURSIVE Split(_, _)
Split(s, a) ==
    LET c == Cut(s, a) IN
    IF c.found THEN <<c.before>> \o Split(c.after, a) ELSE <<s>>

\* strconv.Itoa: the decimal digits of n, with a leading "-" below zero.
Digit(d) == <<"0", "1", "2", "3", "4", "5", "6", "7", "8", "9">>[d + 1]

RECURSIVE NatDigits(_)
NatDigits(n) ==
    IF n < 10 THEN <<Digit(n)>> ELSE NatDigits(n \div 10) \o <<Digit(n % 10)>>

Itoa(n) == IF n < 0 THEN <<"-">> \o NatDigits(0 - n) ELSE NatDigits(n)

-----------------------------------------------------------------------------
(* net/url, as far as the client uses it *)

\* url.shouldEscape in path mode: unreserved characters and $&+,/:;=@ stay.
PathEscapeAtom(a) ==
    CASE a = "?" -> "%3F"
      [] a = "{" -> "%7B"
      [] a = "}" -> "%7D"
      [] OTHER   -> a

\* url.shouldEscape in query-component mode: every reserved character goes.
QueryEscapeAtom(a) ==
    CASE a = "?" -> "%3F"
      [] a = "{" -> "%7B"
      [] a = "}" -> "%7D"
      [] a = "@" -> "%40"
      [] a = "&" -> "%26"
      [] a = "=" -> "%3D"
      [] a = "/" -> "%2F"
      [] a = ":" -> "%3A"
      [] OTHER   -> a

\* url.unescape: a percent-escape back to its character.
UnescapeAtom(a) ==
    CASE a = "%3F" -> "?"
      [] a = "%7B" -> "{"
      [] a = "%7D" -> "}"
      [] a = "%40" -> "@"
      [] a = "%26" -> "&"
      [] a = "%3D" -> "="
      [] a = "%2F" -> "/"
      [] a = "%3A" -> ":"
      [] OTHER     -> a

PathEscape(s)  == [i \in 1..Len(s) |-> PathEscapeAtom(s[i])]
QueryEscape(s) == [i \in 1..Len(s) |-> QueryEscapeAtom(s[i])]
Unescape(s)    == [i \in 1..Len(s) |-> UnescapeAtom(s[i])]

NoError == [kind |-> "nil", text |-> <<>>]

\* url.Parse: scheme (getScheme fails on a leading ":"), then the query cut
\* off at the first "?", then "//" authority, then the unescaped path.
ParseURL(s) ==
    IF s # <<>> /\ Head(s) = ":"
    THEN [err |-> [kind |-> "url.Error", text |-> <<"missing protocol scheme">>],
          scheme |-> <<>>, host |-> <<>>, path |-> <<>>, rawQuery |-> <<>>]
    ELSE LET hasScheme == Len(s) >= 2 /\ s[2] = ":"
             scheme    == IF hasScheme THEN <<s[1]>> ELSE <<>>
             rest      == IF hasScheme THEN SubSeq(s, 3, Len(s)) ELSE s
             q         == Cut(rest, "?")
             hasHost   == HasPrefix(q.before, <<"/", "/">>)
             auth      == IF hasHost THEN SubSeq(q.before, 3, Len(q.before)) ELSE <<>>
             slash     == IndexOf(auth, "/")
             host      == IF slash = 0 THEN auth ELSE SubSeq(auth, 1, slash - 1)
             rawPath   == IF hasHost
                          THEN IF slash = 0 THEN <<>> ELSE SubSeq(auth, slash, Len(auth))
                          ELSE q.before
         IN [err |-> NoError, scheme |-> scheme, host |-> host,
             path |-> Unescape(rawPath), rawQuery |-> q.after]

\* url.ParseQuery: the pairs between "&", each cut at its first "=", both
\* sides unescaped; a key's values are kept in order.
RECURSIVE QueryPairs(_)
QueryPairs(pieces) ==
    IF pieces = <<>> THEN <<>>
    ELSE LET kv == Cut(Head(pieces), "=") IN
         (IF Head(pieces) = <<>> THEN <<>>
          ELSE << <<Unescape(kv.before), Unescape(kv.after)>> >>)
         \o QueryPairs(Tail(pieces))

RECURSIVE ValuesOf(_, _)
ValuesOf(pairs, k) ==
    IF pairs = <<>> THEN <<>>
    ELSE (IF Head(pairs)[1] = k THEN <<Head(pairs)[2]>> ELSE <<>>)
         \o ValuesOf(Tail(pairs), k)

ParseQuery(q) ==
    LET pairs == QueryPairs(Split(q, "&")) IN
    [k \in {pairs[i][1] : i \in DOMAIN pairs} |-> ValuesOf(pairs, k)]

\* Mutant of ValuesSet: the value is appended, as url.Values.Add does.
ValuesSetAppending(v, k, x) ==
    [y \in DOMAIN v \cup {k} |->
        IF y = k THEN (IF k \in DOMAIN v THEN v[k] ELSE <<>>) \o <<x>> ELSE v[y]]

\* url.Values.Set: the key's values replaced by the one value.
ValuesSet(v, k, x) == [y \in DOMAIN v \cup {k} |-> IF y = k THEN <<x>> ELSE v[y]]

\* url.Values.Add: the value appended to the key's values.
ValuesAdd(v, k, x) ==
    [y \in DOMAIN v \cup {k} |->
        IF y = k THEN (IF k \in DOMAIN v THEN v[k] ELSE <<>>) \o <<x>> ELSE v[y]]

\* url.Values.Get: the key's first value, "" when it has none.
ValuesGet(v, k) == IF k \in DOMAIN v /\ v[k] # <<>> THEN v[k][1] ELSE <<>>

\* sort.Strings over the keys of a query: the order of the words that occur.
KeyRank(k) ==
    CASE k = <<"apikey">> -> 1
      [] k = <<"email">>  -> 2
      [] OTHER            -> 3

RECURSIVE SortedKeys(_)
SortedKeys(ks) ==
    IF ks = {} THEN <<>>
    ELSE LET k == CHOOSE x \in ks : \A y \in ks : KeyRank(x) <= KeyRank(y)
         IN <<k>> \o SortedKeys(ks \ {k})

RECURSIVE JoinWith(_, _)
JoinWith(ss, a) ==
    IF ss = <<>> THEN <<>>
    ELSE IF Len(ss) = 1 THEN Head(ss)
    ELSE Head(ss) \o <<a>> \o JoinWith(Tail(ss), a)

\* url.Values.Encode: key=value pairs, keys sorted, joined by "&".
ValuesEncode(v) ==
    LET ks == SortedKeys(DOMAIN v)
        one(k) == [i \in 1..Len(v[k]) |->
                      QueryEscape(k) \o <<"=">> \o QueryEscape(v[k][i])]
    IN JoinWith(Concat([i \in 1..Len(ks) |-> one(ks[i])]), "&")

\* URL.String: scheme, "//" host, the escaped path, "?" and the raw query.
URLString(u) ==
    (IF u.scheme # <<>> THEN u.scheme \o <<":">> ELSE <<>>)
    \o (IF u.host # <<>> THEN <<"/", "/">> \o u.host ELSE <<>>)
    \o PathEscape(u.path)
    \o (IF u.rawQuery # <<>> THEN <<"?">> \o u.rawQuery ELSE <<>>)

-----------------------------------------------------------------------------
(* The endpoint registry and the errors of the package *)

\* var Endpoints = map[ServiceType]Endpoint{...}
EndpointRegistry ==
    [Verify               |-> [Method |-> "GET",
                               Path   |-> <<"/", "{", "API_VERSION", "}", "/", "verify">>],
     VerifyMultiple       |-> [Method |-> "PUT",
                               Path   |-> <<"/", "{", "API_VERSION", "}", "/", "verify-batch">>],
     CheckJobStatus       |-> [Method |-> "GET",
                               Path   |-> <<"/", "{", "API_VERSION", "}", "/", "verify-batch",
                                            "/", "{", "JOB_ID", "}">>],
     CreditBalance        |-> [Method |-> "GET",
                               Path   |-> <<"/", "{", "API_VERSION", "}", "/", "balance">>],
     DisposableEmailCheck |-> [Method |-> "GET",
                               Path   |-> <<"/", "{", "API_VERSION", "}", "/", "disposable",
                                            "/", "{", "EMAIL_ADDRESS", "}">>]]

ErrEmptyResponse ==
    [kind |-> "ErrEmptyResponse",
     text |-> <<"Empty body response received from service">>]

ErrUnknownErrorVerifyingEmail ==
    [kind |-> "ErrUnknownErrorVerifyingEmail",
     text |-> <<"Unknown error verifying email">>]

\* const BaseURL
BaseURL == <<"https", ":", "/", "/", "api.kickbox.com">>

\* NewWith: a nil httpClient is replaced by one with a two second timeout.
NewWith(baseURL, apiKey, httpClient) ==
    [baseURL    |-> baseURL,
     apiKey     |-> apiKey,
     httpClient |-> IF httpClient = "nil" THEN "timeout-2s" ELSE httpClient]

\* New: NewWith on the vendor's host.
New(apiKey, httpClient) == NewWith(BaseURL, apiKey, httpClient)

-----------------------------------------------------------------------------
(* The public operations: the maps each one builds for its call *)

Ops == {"Verify", "VerifyMultiple", "CheckJobStatus", "CreditBalance", "Disposable"}

\* The registry key each operation's call*Service looks up.
ServiceOf(o) == IF o = "Disposable" THEN "DisposableEmailCheck" ELSE o

EmptyMap == [k \in {} |-> <<>>]

MapPut(m, k, v) == [x \in DOMAIN m \cup {k} |-> IF x = k THEN v ELSE m[x]]

NoArgs == [email |-> <<>>, jobID |-> 0, urlCallback |-> <<>>, filename |-> <<>>,
           data |-> <<>>]

\* segments := map[string]string{...} of each public operation.
SegmentsOf(o, a) ==
    CASE o = "CheckJobStatus" ->
            MapPut(MapPut(EmptyMap, <<"API_VERSION">>, <<"v2">>),
                   <<"JOB_ID">>, Itoa(a.jobID))
      [] o = "Disposable" ->
            MapPut(MapPut(EmptyMap, <<"API_VERSION">>, <<"v1">>),
                   <<"EMAIL_ADDRESS">>, a.email)
      [] OTHER -> MapPut(EmptyMap, <<"API_VERSION">>, <<"v2">>)

\* params := map[string]string{...}: Verify passes the email, the others
\* start from an empty map.
ParamsOf(o, a) ==
    IF o = "Verify" THEN MapPut(EmptyMap, <<"email">>, a.email) ELSE EmptyMap

\* Mutant of HeadersOf: both headers are set whatever the arguments are.
HeadersOfUnconditional(o, a) ==
    IF o # "VerifyMultiple" THEN EmptyMap
    ELSE MapPut(MapPut(EmptyMap, "X-Kickbox-Callback", a.urlCallback),
                "X-Kickbox-Filename", a.filename)

\* VerifyMultiple: each header is set only for a non-empty argument.
HeadersOf(o, a) ==
    IF o # "VerifyMultiple" THEN EmptyMap
    ELSE LET h1 == IF a.urlCallback # <<>>
                   THEN MapPut(EmptyMap, "X-Kickbox-Callback", a.urlCallback)
                   ELSE EmptyMap
         IN IF a.filename # <<>>
            THEN MapPut(h1, "X-Kickbox-Filename", a.filename)
            ELSE h1

\* The request body the call*Service passes: bytes.NewReader(data) for
\* VerifyMultiple, nil for the others.
BodyOf(o, a) ==
    IF o = "VerifyMultiple" THEN [nil |-> FALSE, bytes |-> a.data]
    ELSE [nil |-> TRUE, bytes |-> <<>>]

-----------------------------------------------------------------------------
(* The request builder *)

\* The orders in which a range over a map with these keys may visit them.
Orders(keys) ==
    {o \in [1..Cardinality(keys) -> keys] :
        \A i, j \in 1..Cardinality(keys) : i # j => o[i] # o[j]}

\* for search, replace := range segments { path = strings.Replace(...) }
RECURSIVE ReplaceSegments(_, _, _)
ReplaceSegments(path, segs, order) ==
    IF order = <<>> THEN path
    ELSE ReplaceSegments(
             Replace(path, <<"{">> \o Head(order) \o <<"}">>, segs[Head(order)]),
             segs, Tail(order))

\* for k, v := range params { queryString.Set(k, v) }
RECURSIVE SetAll(_, _, _)
SetAll(q, prms, keys) ==
    IF keys = {} THEN q
    ELSE LET k == CHOOSE x \in keys : TRUE
         IN SetAll(ValuesSet(q, k, prms[k]), prms, keys \ {k})

\* Client.buildURL
buildURL(c, path, prms) ==
    LET u == ParseURL(c.baseURL) IN
    IF u.err # NoError THEN [url |-> <<>>, err |-> u.err]
    ELSE LET queryString == SetAll(ParseQuery(u.rawQuery), prms, DOMAIN prms)
             u2 == [u EXCEPT !.path = u.path \o path,
                             !.rawQuery = ValuesEncode(queryString)]
         IN [url |-> URLString(u2), err |-> NoError]

NoRequest == [nil |-> TRUE]

\* http.NewRequest: the method is one of the registry's, so only parsing
\* the URL can fail; the header starts empty.
NewRequest(method, url, body) ==
    LET u == ParseURL(url) IN
    IF u.err # NoError THEN [req |-> NoRequest, err |-> u.err]
    ELSE [req |-> [nil |-> FALSE, Method |-> method, URL |-> u,
                   Header |-> EmptyMap, Body |-> body],
          err |-> NoError]

\* Client.buildRequest, the range over segments taken in the given order.
\* It writes apikey into the caller's params map.
buildRequest(c, method, path, segs, order, prms, body) ==
    LET prms2 == MapPut(prms, <<"apikey">>, c.apiKey)
        path2 == ReplaceSegments(path, segs, order)
        built == buildURL(c, path2, prms2)
    IN IF built.err # NoError
       THEN [req |-> NoRequest, err |-> built.err, params |-> prms2]
       ELSE LET r == NewRequest(method, built.url, body)
            IN [req |-> r.req, err |-> r.err, params |-> prms2]

\* textproto.CanonicalMIMEHeaderKey on the header names the client uses.
CanonicalMIMEHeaderKey(k) ==
    CASE k = "x-kickbox-callback" -> "X-Kickbox-Callback"
      [] k = "x-kickbox-filename" -> "X-Kickbox-Filename"
      [] OTHER -> k

\* for key, value := range headers { request.Header.Add(key, value) }
RECURSIVE AddHeaders(_, _, _)
AddHeaders(h, hdrs, keys) ==
    IF keys = {} THEN h
    ELSE LET k == CHOOSE x \in keys : TRUE
         IN AddHeaders(ValuesAdd(h, CanonicalMIMEHeaderKey(k), hdrs[k]),
                       hdrs, keys \ {k})

-----------------------------------------------------------------------------
(* The transport invoker *)

\* Client.doRequest against the stub: httpClient.Do fails, or reading the
\* body fails, or the status and the body come back.
doRequest(srv, req) ==
    CASE srv.fail = "do" ->
            [status |-> 0, body |-> <<>>,
             err |-> [kind |-> "url.Error", text |-> <<"connection refused">>]]
      [] srv.fail = "read" ->
            [status |-> 0, body |-> <<>>,
             err |-> [kind |-> "io", text |-> <<"unexpected EOF">>]]
      [] OTHER ->
            [status |-> srv.status, body |-> srv.body, err |-> NoError]

\* Mutant of callService: a status of 400 or more is taken for a failure.
callServiceCheckingStatus(srv, req) ==
    LET r == doRequest(srv, req) IN
    IF r.err # NoError \/ r.status >= 400
    THEN [body |-> <<>>,
          err  |-> [kind |-> "fmt.Errorf",
                    text |-> <<"Error doing request: ">> \o r.err.text]]
    ELSE IF Len(r.body) = 0
    THEN [body |-> <<>>, err |-> ErrEmptyResponse]
    ELSE [body |-> r.body, err |-> NoError]

\* Client.callService: the status is dropped; a transport error is wrapped,
\* a zero-length body is ErrEmptyResponse.
callService(srv, req) ==
    LET r == doRequest(srv, req) IN
    IF r.err # NoError
    THEN [body |-> <<>>,
          err  |-> [kind |-> "fmt.Errorf",
                    text |-> <<"Error doing request: ">> \o r.err.text]]
    ELSE IF Len(r.body) = 0
    THEN [body |-> <<>>, err |-> ErrEmptyResponse]
    ELSE [body |-> r.body, err |-> NoError]

-----------------------------------------------------------------------------
(* encoding/json, as far as the decoders use it.  A body is a sequence of  *)
(* tokens; a JSON object is "{", its members, "}".  Numbers are integers   *)
(* (a sendex is kept in hundredths).                                       *)

JNull    == [type |-> "null",   b |-> FALSE, s |-> "", n |-> 0, o |-> <<>>]
JBool(x) == [type |-> "bool",   b |-> x,     s |-> "", n |-> 0, o |-> <<>>]
JStr(x)  == [type |-> "string", b |-> FALSE, s |-> x,  n |-> 0, o |-> <<>>]
JNum(x)  == [type |-> "number", b |-> FALSE, s |-> "", n |-> x, o |-> <<>>]
JObj(ms) == [type |-> "object", b |-> FALSE, s |-> "", n |-> 0, o |-> ms]

M(name, val) == [name |-> name, val |-> val]

LBrace == [t |-> "{", m |-> M("", JNull)]
RBrace == [t |-> "}", m |-> M("", JNull)]
Junk   == [t |-> "junk", m |-> M("", JNull)]
Tok(m) == [t |-> "member", m |-> m]

\* The bytes of a JSON object with these members.
Object(ms) == <<LBrace>> \o [i \in 1..Len(ms) |-> Tok(ms[i])] \o <<RBrace>>

\* json.Valid, for a top-level object.
ValidJSON(body) ==
    /\ Len(body) >= 2
    /\ body[1].t = "{"
    /\ body[Len(body)].t = "}"
    /\ \A i \in 2..(Len(body) - 1) : body[i].t = "member"

MembersOf(body) == [i \in 1..(Len(body) - 2) |-> body[i + 1].m]

F(field, json, type) == [field |-> field, json |-> json, type |-> type]

\* The struct types, field by field with their json tags.
VerifyResponseFields ==
    <<F("Result", "result", "string"), F("Reason", "reason", "string"),
      F("Role", "role", "bool"), F("Free", "free", "bool"),
      F("Disposable", "disposable", "bool"), F("AcceptAll", "accept_all", "bool"),
      F("DidYouMean", "did_you_mean", "string"), F("Sendex", "sendex", "number"),
      F("Email", "email", "string"), F("User", "user", "string"),
      F("Domain", "domain", "string"), F("Success", "success", "bool"),
      F("Message", "message", "string")>>

VerifyMultipleResponseFields ==
    <<F("ID", "id", "number"), F("Success", "success", "bool"),
      F("Message", "message", "string")>>

ProgressFields ==
    <<F("Deliverable", "deliverable", "number"),
      F("Undeliverable", "undeliverable", "number"),
      F("Risky", "risky", "number"), F("Unknown", "unknown", "number"),
      F("Total", "total", "number"), F("Unprocessed", "unprocessed", "number")>>

StatsFields ==
    <<F("Deliverable", "deliverable", "number"),
      F("Undeliverable", "undeliverable", "number"),
      F("Risky", "risky", "number"), F("Unknown", "unknown", "number"),
      F("Sendex", "sendex", "number"), F("Addresses", "addresses", "number")>>

CheckJobStatusResponseFields ==
    <<F("ID", "id", "number"), F("Name", "name", "string"),
      F("DownloadURL", "download_url", "string"),
      F("CreatedAt", "created_at", "string"), F("Status", "status", "string"),
      F("Progress", "progress", "Progress"), F("Stats", "stats", "Stats"),
      F("Success", "success", "bool"), F("Message", "message", "string"),
      F("Error", "error", "string"), F("Duration", "duration", "number")>>

CreditBalanceResponseFields ==
    <<F("Balance", "balance", "number"), F("Success", "success", "bool"),
      F("Message", "message", "string")>>

DisposableEmailCheckResponseFields == <<F("Disposable", "disposable", "bool")>>

\* The fields of a nested struct type; none for a scalar.
SubFields(type) ==
    CASE type = "Progress" -> ProgressFields
      [] type = "Stats"    -> StatsFields
      [] OTHER             -> <<>>

\* The JSON type a field of this Go type takes.
JSONTypeOf(type) == IF SubFields(type) # <<>> THEN "object" ELSE type

\* The response type each operation decodes into.
FieldsOf(o) ==
    CASE o = "Verify"         -> VerifyResponseFields
      [] o = "VerifyMultiple" -> VerifyMultipleResponseFields
      [] o = "CheckJobStatus" -> CheckJobStatusResponseFields
      [] o = "CreditBalance"  -> CreditBalanceResponseFields
      [] OTHER                -> DisposableEmailCheckResponseFields

\* The members a field's tag matches, null ones dropped (null leaves the
\* field as it is).
RECURSIVE Matching(_, _)
Matching(ms, json) ==
    IF ms = <<>> THEN <<>>
    ELSE (IF Head(ms).name = json /\ Head(ms).val.type # "null"
          THEN <<Head(ms).val>> ELSE <<>>)
         \o Matching(Tail(ms), json)

\* var response T; json.Unmarshal: a field takes the last member of its tag,
\* and stays zero without one.
RECURSIVE DecodeStruct(_, _)
DecodeStruct(fields, ms) ==
    [name \in {fields[i].field : i \in DOMAIN fields} |->
        LET f    == CHOOSE x \in Range(fields) : x.field = name
            vals == Matching(ms, f.json)
            last == IF vals = <<>> THEN JNull ELSE vals[Len(vals)]
        IN CASE f.type = "bool"   -> last.b
             [] f.type = "string" -> last.s
             [] f.type = "number" -> last.n
             [] OTHER -> DecodeStruct(SubFields(f.type), last.o)]

\* Whether some member's value has another JSON type than its field
\* (json.UnmarshalTypeError), nested structs included.
RECURSIVE TypeMismatch(_, _)
TypeMismatch(fields, ms) ==
    \E i \in DOMAIN fields : \E j \in DOMAIN ms :
        /\ ms[j].name = fields[i].json
        /\ ms[j].val.type # "null"
        /\ \/ ms[j].val.type # JSONTypeOf(fields[i].type)
           \/ /\ SubFields(fields[i].type) # <<>>
              /\ TypeMismatch(SubFields(fields[i].type), ms[j].val.o)

NilResult == [nil |-> TRUE]

\* json.Unmarshal(body, &response)
Unmarshal(o, body) ==
    IF Len(body) = 0
    THEN [val |-> NilResult,
          err |-> [kind |-> "json.SyntaxError",
                   text |-> <<"unexpected end of JSON input">>]]
    ELSE IF ~ValidJSON(body)
    THEN [val |-> NilResult,
          err |-> [kind |-> "json.SyntaxError", text |-> <<"invalid character">>]]
    ELSE IF TypeMismatch(FieldsOf(o), MembersOf(body))
    THEN [val |-> NilResult,
          err |-> [kind |-> "json.UnmarshalTypeError",
                   text |-> <<"cannot unmarshal">>]]
    ELSE [val |-> DecodeStruct(FieldsOf(o), MembersOf(body)), err |-> NoError]

\* Mutant of decodeAndReturn: the body is decoded only when callService gave
\* no error, and the zero response goes back with callService's error.
decodeAndReturnKeepingResponse(o, r) ==
    IF r.err # NoError
    THEN [result |-> DecodeStruct(FieldsOf(o), <<>>), err |-> r.err]
    ELSE LET d == Unmarshal(o, r.body) IN
         IF d.err # NoError THEN [result |-> NilResult, err |-> d.err]
         ELSE [result |-> d.val, err |-> NoError]

\* The tail of every call*Service, after body, err := c.callService(request):
\* the body is decoded whatever err is, a decode error is returned with a nil
\* result, and otherwise the result goes back with callService's err.
decodeAndReturn(o, r) ==
    LET d == Unmarshal(o, r.body) IN
    IF d.err # NoError THEN [result |-> NilResult, err |-> d.err]
    ELSE [result |-> d.val, err |-> r.err]

-----------------------------------------------------------------------------
(* The methods of the results *)

\* VerifyResponse.IsValid
IsValid(v) == v.Result = "deliverable"

\* VerifyResponse.Error
VerifyResponseError(v) ==
    IF ~v.Success
    THEN IF v.Message # ""
         THEN [kind |-> "errors.New", text |-> <<v.Message>>]
         ELSE ErrUnknownErrorVerifyingEmail
    ELSE NoError

\* VerifyMultipleResponse.Error
VerifyMultipleResponseError(v) ==
    IF ~v.Success
    THEN IF v.Message # ""
         THEN [kind |-> "errors.New", text |-> <<v.Message>>]
         ELSE ErrUnknownErrorVerifyingEmail
    ELSE NoError

\* Mutant of CreditBalanceResponseError: a message is an error whatever
\* Success is.
CreditBalanceResponseErrorByMessage(v) ==
    IF v.Message # ""
    THEN [kind |-> "errors.New", text |-> <<v.Message>>]
    ELSE IF ~v.Success THEN ErrUnknownErrorVerifyingEmail ELSE NoError

\* CreditBalanceResponse.Error
CreditBalanceResponseError(v) ==
    IF ~v.Success
    THEN IF v.Message # ""
         THEN [kind |-> "errors.New", text |-> <<v.Message>>]
         ELSE ErrUnknownErrorVerifyingEmail
    ELSE NoError

\* CheckJobStatusResponse.IsStarting
IsStarting(c) == c.Status = "starting"

\* CheckJobStatusResponse.IsProcessing
IsProcessing(c) == c.Status = "processing"

\* Mutant of IsCompleted: the status is compared as strings.EqualFold does.
IsCompletedFold(c) == c.Status \in {"completed", "Completed", "COMPLETED"}

\* CheckJobStatusResponse.IsCompleted
IsCompleted(c) == c.Status = "completed"

-----------------------------------------------------------------------------
(* The inputs: clients, arguments and stub answers *)

\* http.StatusOK and http.StatusBadRequest, the statuses the stub answers.
StatusOK == 200
StatusBadRequest == 400

\* The job id of the tests.
TestJobID == 415

BaseURLs ==
    {BaseURL,
     <<"http", ":", "/", "/", "127.0.0.1:8080">>,
     <<"https", ":", "/", "/", "api.kickbox.com", "?", "apikey", "=", "other">>,
     <<":", "/", "/", "api.kickbox.com">>}

APIKeys == {<<"a_valid_api_key">>, <<"k", "&", "=", "?">>}

Clients == {NewWith(u, k, "nil") : u \in BaseURLs, k \in APIKeys}
           \cup {New(<<"a_valid_api_key">>, "custom")}

Emails ==
    {<<>>,
     <<"a_valid", "@", "email.com">>,
     <<"{", "API_VERSION", "}">>,
     <<"x", "?", "apikey", "=", "evil">>,
     <<"x", "&", "apikey", "=", "evil">>}

JobIDs == ((0 - 1)..MaxSmallJob) \cup {TestJobID}

Callbacks == {<<>>, <<"http", ":", "/", "/", "callback.com">>}
Filenames == {<<>>, <<"filename.txt">>}
Datas     == {<<>>, <<"\"test@test.com\",\"Foo Bar\"">>}

\* The argument lists each operation can be called with.
ArgsOf(o) ==
    CASE o = "Verify"         -> {[NoArgs EXCEPT !.email = e] : e \in Emails}
      [] o = "Disposable"     -> {[NoArgs EXCEPT !.email = e] : e \in Emails}
      [] o = "CheckJobStatus" -> {[NoArgs EXCEPT !.jobID = j] : j \in JobIDs}
      [] o = "VerifyMultiple" ->
            {[NoArgs EXCEPT !.urlCallback = c, !.filename = f, !.data = d] :
                c \in Callbacks, f \in Filenames, d \in Datas}
      [] OTHER -> {NoArgs}

ErrorMessage == "An error message describing the problem"

\* The response bodies of the tests, and variants of them.
Bodies ==
    {<<>>,
     <<Junk>>,
     <<LBrace, Tok(M("success", JBool(TRUE)))>>,
     Object(<<M("result", JStr("deliverable")), M("reason", JStr("")),
              M("role", JBool(FALSE)), M("sendex", JNum(23)),
              M("email", JStr("bill.lumbergh@gamil.com")),
              M("success", JBool(TRUE)), M("message", JNull)>>),
     Object(<<M("result", JStr("undeliverable")),
              M("reason", JStr("rejected_email")),
              M("success", JBool(TRUE)), M("message", JNull)>>),
     Object(<<M("message", JStr(ErrorMessage)), M("success", JBool(FALSE))>>),
     Object(<<M("id", JNum(123)), M("success", JBool(TRUE)), M("message", JNull)>>),
     Object(<<M("id", JNum(465)), M("status", JStr("starting")),
              M("success", JBool(TRUE)), M("message", JNull)>>),
     Object(<<M("id", JNum(465)), M("status", JStr("processing")),
              M("progress", JObj(<<M("total", JNum(0)), M("unprocessed", JNum(2))>>)),
              M("success", JBool(TRUE)), M("message", JNull)>>),
     Object(<<M("id", JNum(465)), M("status", JStr("completed")),
              M("stats", JObj(<<M("deliverable", JNum(1)), M("sendex", JNum(35)),
                                M("addresses", JNum(2))>>)),
              M("error", JNull), M("duration", JNum(0)),
              M("success", JBool(TRUE)), M("message", JNull)>>),
     Object(<<M("status", JStr("Completed")), M("success", JBool(TRUE))>>),
     Object(<<M("status", JStr("failed")), M("success", JBool(TRUE))>>),
     Object(<<M("balance", JNum(1337)), M("success", JBool(TRUE)),
              M("message", JNull)>>),
     Object(<<M("balance", JNum(0)), M("success", JBool(FALSE)),
              M("message", JStr("Error retrieving your balance"))>>),
     Object(<<M("disposable", JBool(TRUE))>>),
     Object(<<M("success", JBool(FALSE)), M("message", JStr(""))>>),
     Object(<<M("success", JBool(TRUE)), M("message", JStr("a note"))>>),
     Object(<<M("success", JStr("yes")), M("disposable", JStr("no"))>>),
     Object(<<>>)}

\* What the stub transport does with a request.
Stubs ==
    {[fail |-> f, status |-> 0, body |-> <<>>] : f \in {"do", "read"}}
    \cup {[fail |-> "none", status |-> st, body |-> b] :
             st \in {StatusOK, StatusBadRequest}, b \in Bodies}

-----------------------------------------------------------------------------
(* The callers *)

Callers == DOMAIN pc

\* Mutant of Frame: the maps and the request are package-level, one for all
\* calls.
SharedFrame(p) == CHOOSE q \in DOMAIN pc : TRUE

\* The frame of a call: the maps and the request a call makes with := are
\* its own.
Frame(p) == p

NoReply  == [body |-> <<>>, err |-> NoError]
NoReturn == [result |-> NilResult, err |-> NoError]
NotSeen  == [inspected |-> FALSE, error |-> NoError, valid |-> FALSE,
             starting |-> FALSE, processing |-> FALSE, completed |-> FALSE]

\* What a caller reads off a result's methods.
Inspection(o, r) ==
    [inspected  |-> TRUE,
     error      |-> CASE o = "Verify"         -> VerifyResponseError(r)
                      [] o = "VerifyMultiple" -> VerifyMultipleResponseError(r)
                      [] o = "CreditBalance"  -> CreditBalanceResponseError(r)
                      [] OTHER                -> NoError,
     valid      |-> IF o = "Verify" THEN IsValid(r) ELSE FALSE,
     starting   |-> IF o = "CheckJobStatus" THEN IsStarting(r) ELSE FALSE,
     processing |-> IF o = "CheckJobStatus" THEN IsProcessing(r) ELSE FALSE,
     completed  |-> IF o = "CheckJobStatus" THEN IsCompleted(r) ELSE FALSE]

\* Every caller idle, no call in progress.
AllIdle(callers) ==
    /\ Endpoints = EndpointRegistry
    /\ pc = [p \in callers |-> "idle"]
    /\ op = [p \in callers |-> "CreditBalance"]
    /\ args = [p \in callers |-> NoArgs]
    /\ segments = [p \in callers |-> EmptyMap]
    /\ params = [p \in callers |-> EmptyMap]
    /\ headers = [p \in callers |-> EmptyMap]
    /\ request = [p \in callers |-> NoRequest]
    /\ reply = [p \in callers |-> NoReply]
    /\ ret = [p \in callers |-> NoReturn]
    /\ doCount = [p \in callers |-> 0]
    /\ seen = [p \in callers |-> NotSeen]

\* One caller, any client, any stub answer.
Init ==
    /\ client \in Clients
    /\ server \in Stubs
    /\ AllIdle({"main"})

\* A public operation is entered: Verify, VerifyMultiple, CheckJobStatus,
\* CreditBalance or Disposable builds its maps.
Call(p) ==
    /\ pc[p] = "idle"
    /\ \E o \in Ops : \E a \in ArgsOf(o) :
        /\ op' = [op EXCEPT ![p] = o]
        /\ args' = [args EXCEPT ![p] = a]
        /\ segments' = [segments EXCEPT ![Frame(p)] = SegmentsOf(o, a)]
        /\ params' = [params EXCEPT ![Frame(p)] = ParamsOf(o, a)]
        /\ headers' = [headers EXCEPT ![Frame(p)] = HeadersOf(o, a)]
    /\ request' = [request EXCEPT ![Frame(p)] = NoRequest]
    /\ reply' = [reply EXCEPT ![Frame(p)] = NoReply]
    /\ ret' = [ret EXCEPT ![Frame(p)] = NoReturn]
    /\ doCount' = [doCount EXCEPT ![p] = 0]
    /\ seen' = [seen EXCEPT ![p] = NotSeen]
    /\ pc' = [pc EXCEPT ![p] = "build"]
    /\ UNCHANGED <<client, Endpoints, server>>

\* call*Service: endpoint := Endpoints[...]; request, err := c.buildRequest(...);
\* a build error is returned at once.
Build(p) ==
    /\ pc[p] = "build"
    /\ LET f        == Frame(p)
           endpoint == Endpoints[ServiceOf(op[p])]
       IN \E order \in Orders(DOMAIN segments[f]) :
            LET b == buildRequest(client, endpoint.Method, endpoint.Path,
                                  segments[f], order, params[f],
                                  BodyOf(op[p], args[p]))
            IN /\ params' = [params EXCEPT ![f] = b.params]
               /\ request' = [request EXCEPT ![f] = b.req]
               /\ IF b.err # NoError
                  THEN /\ ret' = [ret EXCEPT ![f] = [result |-> NilResult, err |-> b.err]]
                       /\ pc' = [pc EXCEPT ![p] = "done"]
                  ELSE /\ ret' = ret
                       /\ pc' = [pc EXCEPT ![p] =
                                    IF op[p] = "VerifyMultiple" THEN "headers" ELSE "send"]
    /\ UNCHANGED <<client, Endpoints, server, op, args, segments, headers, reply,
                   doCount, seen>>

\* callVerifyMultipleService: the headers are added to the request.
SetHeaders(p) ==
    /\ pc[p] = "headers"
    /\ LET f == Frame(p) IN
       request' = [request EXCEPT ![f].Header =
                      AddHeaders(request[f].Header, headers[f], DOMAIN headers[f])]
    /\ pc' = [pc EXCEPT ![p] = "send"]
    /\ UNCHANGED <<client, Endpoints, server, op, args, segments, params, headers,
                   reply, ret, doCount, seen>>

\* Mutant of Send: a failed Do is tried once more.
SendRetrying(p) ==
    /\ pc[p] = "send"
    /\ reply' = [reply EXCEPT ![Frame(p)] = callService(server, request[Frame(p)])]
    /\ doCount' = [doCount EXCEPT ![p] =
                      doCount[p] + (IF server.fail = "do" THEN 2 ELSE 1)]
    /\ pc' = [pc EXCEPT ![p] = "decode"]
    /\ UNCHANGED <<client, Endpoints, server, op, args, segments, params, headers,
                   request, ret, seen>>

\* body, err := c.callService(request): one call of httpClient.Do.
Send(p) ==
    /\ pc[p] = "send"
    /\ reply' = [reply EXCEPT ![Frame(p)] = callService(server, request[Frame(p)])]
    /\ doCount' = [doCount EXCEPT ![p] = doCount[p] + 1]
    /\ pc' = [pc EXCEPT ![p] = "decode"]
    /\ UNCHANGED <<client, Endpoints, server, op, args, segments, params, headers,
                   request, ret, seen>>

\* json.Unmarshal and the return of the call*Service.
Decode(p) ==
    /\ pc[p] = "decode"
    /\ ret' = [ret EXCEPT ![Frame(p)] = decodeAndReturn(op[p], reply[Frame(p)])]
    /\ pc' = [pc EXCEPT ![p] = "done"]
    /\ UNCHANGED <<client, Endpoints, server, op, args, segments, params, headers,
                   request, reply, doCount, seen>>

\* The caller, handed a result, reads its methods.
Inspect(p) ==
    /\ pc[p] = "done"
    /\ ret[Frame(p)].result # NilResult
    /\ seen' = [seen EXCEPT ![p] = Inspection(op[p], ret[Frame(p)].result)]
    /\ pc' = [pc EXCEPT ![p] = "inspected"]
    /\ UNCHANGED <<client, Endpoints, server, op, args, segments, params, headers,
                   request, reply, ret, doCount>>

\* The caller is through with the call; its frame is gone.
Finish(p) ==
    /\ pc[p] \in {"done", "inspected"}
    /\ pc' = [pc EXCEPT ![p] = "idle"]
    /\ segments' = [segments EXCEPT ![Frame(p)] = EmptyMap]
    /\ params' = [params EXCEPT ![Frame(p)] = EmptyMap]
    /\ headers' = [headers EXCEPT ![Frame(p)] = EmptyMap]
    /\ request' = [request EXCEPT ![Frame(p)] = NoRequest]
    /\ reply' = [reply EXCEPT ![Frame(p)] = NoReply]
    /\ ret' = [ret EXCEPT ![Frame(p)] = NoReturn]
    /\ op' = [op EXCEPT ![p] = "CreditBalance"]
    /\ args' = [args EXCEPT ![p] = NoArgs]
    /\ doCount' = [doCount EXCEPT ![p] = 0]
    /\ seen' = [seen EXCEPT ![p] = NotSeen]
    /\ UNCHANGED <<client, Endpoints, server>>

Next ==
    \/ \E p \in Callers : Call(p)
    \/ \E p \in Callers : Build(p)
    \/ \E p \in Callers : SetHeaders(p)
    \/ \E p \in Callers : Send(p)
    \/ \E p \in Callers : Decode(p)
    \/ \E p \in Callers : Inspect(p)
    \/ \E p \in Callers : Finish(p)

Spec == Init /\ [][Next]_vars

-----------------------------------------------------------------------------
(* Two callers on one Client *)

ConcClients ==
    {New(<<"a_valid_api_key">>, "nil"),
     NewWith(<<":", "/", "/", "api.kickbox.com">>, <<"a_valid_api_key">>, "nil")}

ConcStubs ==
    {[fail |-> "do", status |-> 0, body |-> <<>>],
     [fail |-> "none", status |-> StatusOK, body |-> <<>>],
     [fail |-> "none", status |-> StatusBadRequest,
      body |-> Object(<<M("message", JStr(ErrorMessage)), M("success", JBool(FALSE))>>)]}

InitConc ==
    /\ client \in ConcClients
    /\ server \in ConcStubs
    /\ AllIdle({"a", "b"})

SpecConc == InitConc /\ [][Next]_vars

-----------------------------------------------------------------------------
(* Properties *)

\* The call has returned to its caller.
Returned(p) == pc[p] \in {"done", "inspected"}

\* The call's request went to the HTTP client.
Sent(p) == pc[p] \in {"decode", "done", "inspected"} /\ doCount[p] >= 1

Result(p) == ret[Frame(p)].result
Err(p)    == ret[Frame(p)].err

\* C1: in every operation, a round trip that succeeds with a zero-length body
\* returns a nil result and the error ErrEmptyResponse.
C1_EmptyBodyReturnsErrEmptyResponse ==
    \A p \in Callers :
        (Returned(p) /\ Sent(p) /\ server.fail = "none" /\ Len(server.body) = 0)
            => (Result(p) = NilResult /\ Err(p) = ErrEmptyResponse)

\* C2: in every operation, a failure of Do or of the body read is returned as
\* callService's wrapped error "Error doing request: ...".
C2_TransportErrorReturned ==
    \A p \in Callers :
        (Returned(p) /\ Sent(p) /\ server.fail \in {"do", "read"})
            => /\ Err(p).kind = "fmt.Errorf"
               /\ HasPrefix(Err(p).text, <<"Error doing request: ">>)

\* The body is a JSON object that fits the operation's response type.
WellFormedFor(o, body) ==
    /\ ValidJSON(body)
    /\ ~TypeMismatch(FieldsOf(o), MembersOf(body))

\* The member of this name, when the body has one that is not null.
HasMember(ms, name) == \E j \in DOMAIN ms : ms[j].name = name /\ ms[j].val.type # "null"
MemberOf(ms, name) ==
    (CHOOSE j \in DOMAIN ms : ms[j].name = name /\ ms[j].val.type # "null") 

\* The struct carries the members: a field with a member has the member's
\* value, a field without one is zero.
RECURSIVE CarriesMembers(_, _, _)
CarriesMembers(r, fields, ms) ==
    \A i \in DOMAIN fields :
        LET f == fields[i]
            present == HasMember(ms, f.json)
            v == IF present THEN ms[MemberOf(ms, f.json)].val ELSE JNull
        IN CASE f.type = "bool"   -> r[f.field] = (present /\ v.b)
             [] f.type = "string" -> r[f.field] = (IF present THEN v.s ELSE "")
             [] f.type = "number" -> r[f.field] = (IF present THEN v.n ELSE 0)
             [] OTHER -> CarriesMembers(r[f.field], SubFields(f.type),
                                        IF present THEN v.o ELSE <<>>)

\* C3: whatever the status code, a non-empty well-formed JSON body of the
\* operation's shape is returned decoded with a nil error: the result carries
\* the body's fields, and a body with success false and a message gives a
\* result whose Error() is that message.
C3_StatusNeverShortCircuitsDecoding ==
    \A p \in Callers :
        (Returned(p) /\ Sent(p) /\ server.fail = "none"
            /\ server.status \in {StatusOK, StatusBadRequest}
            /\ WellFormedFor(op[p], server.body))
        => /\ Err(p) = NoError
           /\ Result(p) # NilResult
           /\ CarriesMembers(Result(p), FieldsOf(op[p]), MembersOf(server.body))
           /\ \A st \in {StatusOK, StatusBadRequest} :
                ret[Frame(p)] =
                    decodeAndReturn(op[p], callService([server EXCEPT !.status = st],
                                                       request[Frame(p)]))
           /\ (/\ seen[p].inspected
               /\ op[p] \in {"Verify", "VerifyMultiple", "CreditBalance"}
               /\ server.body = Object(<<M("message", JStr(ErrorMessage)),
                                         M("success", JBool(FALSE))>>))
              => seen[p].error.text = <<ErrorMessage>>

\* A 400 with success false and a message was decoded and its Error() read.
C3_Witness ==
    \E p \in Callers :
        /\ pc[p] = "inspected"
        /\ op[p] = "Verify"
        /\ server.status = StatusBadRequest
        /\ Err(p) = NoError
        /\ Result(p).Message = ErrorMessage
        /\ seen[p].error.text = <<ErrorMessage>>

\* C4: for VerifyResponse, VerifyMultipleResponse and CreditBalanceResponse,
\* Error() is nil iff Success; with Success false it is the Message when there
\* is one and ErrUnknownErrorVerifyingEmail when there is none.
C4_ErrorFollowsSuccessAndMessage ==
    \A p \in Callers :
        (pc[p] = "inspected" /\ op[p] \in {"Verify", "VerifyMultiple", "CreditBalance"})
        => LET r == Result(p)
               e == seen[p].error
           IN /\ (e = NoError) <=> r.Success
              /\ (~r.Success /\ r.Message # "")
                    => (e.kind = "errors.New" /\ e.text = <<r.Message>>)
              /\ (~r.Success /\ r.Message = "") => e = ErrUnknownErrorVerifyingEmail

\* A result with Success true and a message was asked for its Error().
C4_Witness ==
    \E p \in Callers :
        /\ pc[p] = "inspected"
        /\ op[p] = "CreditBalance"
        /\ Result(p).Success
        /\ Result(p).Message = "a note"
        /\ seen[p].error = NoError

\* The template with each {KEY} token of the template replaced by the value
\* the map holds for KEY, in one pass over the template.
RECURSIVE Substituted(_, _)
Substituted(template, segs) ==
    IF template = <<>> THEN <<>>
    ELSE IF /\ Len(template) >= 3
            /\ template[1] = "{"
            /\ template[3] = "}"
            /\ <<template[2]>> \in DOMAIN segs
         THEN segs[<<template[2]>>] \o Substituted(SubSeq(template, 4, Len(template)), segs)
         ELSE <<Head(template)>> \o Substituted(Tail(template), segs)

\* The call's request was built.
Built(p) == pc[p] \in {"headers", "send", "decode"} \/ (Returned(p) /\ doCount[p] >= 1)

\* C5: the path of the realized request is the operation's template with each
\* {KEY} token replaced by the value the operation supplies for KEY, whatever
\* the arguments are and whatever order the substitution map is applied in.
C5_PathIsTemplateSubstituted ==
    \A p \in Callers :
        Built(p) =>
            request[Frame(p)].URL.path =
                Substituted(EndpointRegistry[ServiceOf(op[p])].Path,
                            SegmentsOf(op[p], args[p]))

\* The apikey values and the email values of the request's query.
QueryOf(p) == ParseQuery(request[Frame(p)].URL.rawQuery)

\* C6: every request handed to the HTTP client carries apikey equal to the
\* Client's API key and nothing else under apikey; Verify's request carries
\* email equal to the email argument.
C6_APIKeyOnEveryRequest ==
    \A p \in Callers :
        Sent(p) =>
            /\ <<"apikey">> \in DOMAIN QueryOf(p)
            /\ QueryOf(p)[<<"apikey">>] = <<client.apiKey>>
            /\ ValuesGet(QueryOf(p), <<"apikey">>) = client.apiKey
            /\ op[p] = "Verify" => ValuesGet(QueryOf(p), <<"email">>) = args[p].email

\* A request went out for an email that spells an apikey parameter, from a
\* Client whose base URL has an apikey of its own.
C6_Witness ==
    \E p \in Callers :
        /\ Sent(p)
        /\ op[p] = "Verify"
        /\ args[p].email = <<"x", "&", "apikey", "=", "evil">>
        /\ client.baseURL = <<"https", ":", "/", "/", "api.kickbox.com",
                              "?", "apikey", "=", "other">>
        /\ client.apiKey = <<"k", "&", "=", "?">>

\* C7: VerifyMultiple's request has X-Kickbox-Callback iff urlCallback is not
\* empty, and then with that value alone; likewise X-Kickbox-Filename and
\* filename; the one does not depend on the other.
C7_HeadersOnlyWhenSupplied ==
    \A p \in Callers :
        (Sent(p) /\ op[p] = "VerifyMultiple") =>
            LET h == request[Frame(p)].Header IN
            /\ ("X-Kickbox-Callback" \in DOMAIN h) <=> (args[p].urlCallback # <<>>)
            /\ ("X-Kickbox-Callback" \in DOMAIN h)
                  => h["X-Kickbox-Callback"] = <<args[p].urlCallback>>
            /\ ("X-Kickbox-Filename" \in DOMAIN h) <=> (args[p].filename # <<>>)
            /\ ("X-Kickbox-Filename" \in DOMAIN h)
                  => h["X-Kickbox-Filename"] = <<args[p].filename>>
            /\ \A k \in DOMAIN h : \A i \in DOMAIN h[k] : h[k][i] # <<>>

\* A VerifyMultiple request went out with a callback and no filename.
C7_Witness ==
    \E p \in Callers :
        /\ Sent(p)
        /\ op[p] = "VerifyMultiple"
        /\ args[p].urlCallback # <<>>
        /\ args[p].filename = <<>>
        /\ DOMAIN request[Frame(p)].Header = {"X-Kickbox-Callback"}

\* C8 as stated: every call of a public operation has made exactly one call
\* of the HTTP client's Do when it returns, on every path.
C8_ExactlyOneRoundTrip ==
    \A p \in Callers : Returned(p) => doCount[p] = 1

\* C8 as amended: a call makes at most one call of Do; when it returns it has
\* made exactly one if its request was built, and none if building the
\* request failed.
C8_OneRoundTripOnceBuilt ==
    \A p \in Callers :
        /\ doCount[p] <= 1
        /\ Returned(p) =>
            /\ (request[Frame(p)] # NoRequest) => doCount[p] = 1
            /\ (request[Frame(p)] = NoRequest) =>
                    (doCount[p] = 0 /\ Err(p).kind = "url.Error")

\* A call whose Do failed has returned, after its one round trip.
C8_Witness ==
    \E p \in Callers :
        /\ Returned(p)
        /\ server.fail = "do"
        /\ request[Frame(p)] # NoRequest
        /\ Err(p) # NoError
        /\ doCount[p] = 1

\* What the call (o, a) builds and returns when it runs alone against this
\* client and this stub, its range over the segments taken in this order.
AloneRequest(o, a, order) ==
    LET b == buildRequest(client, EndpointRegistry[ServiceOf(o)].Method,
                          EndpointRegistry[ServiceOf(o)].Path,
                          SegmentsOf(o, a), order, ParamsOf(o, a), BodyOf(o, a))
    IN IF b.req = NoRequest \/ o # "VerifyMultiple" THEN b.req
       ELSE [b.req EXCEPT !.Header =
                AddHeaders(b.req.Header, HeadersOf(o, a), DOMAIN HeadersOf(o, a))]

AloneReturn(o, a, order) ==
    LET b == buildRequest(client, EndpointRegistry[ServiceOf(o)].Method,
                          EndpointRegistry[ServiceOf(o)].Path,
                          SegmentsOf(o, a), order, ParamsOf(o, a), BodyOf(o, a))
    IN IF b.err # NoError THEN [result |-> NilResult, err |-> b.err]
       ELSE decodeAndReturn(o, callService(server, AloneRequest(o, a, order)))

AloneOrders(o, a) == Orders(DOMAIN SegmentsOf(o, a))

\* Each call's maps are those it made, and its request and its return are
\* those of the call running alone.
CallsAreIsolated ==
    \A p \in Callers :
        /\ pc[p] = "build" =>
              /\ segments[Frame(p)] = SegmentsOf(op[p], args[p])
              /\ params[Frame(p)] = ParamsOf(op[p], args[p])
              /\ headers[Frame(p)] = HeadersOf(op[p], args[p])
        /\ pc[p] \in {"send", "decode"} =>
              \E order \in AloneOrders(op[p], args[p]) :
                  request[Frame(p)] = AloneRequest(op[p], args[p], order)
        /\ Returned(p) =>
              \E order \in AloneOrders(op[p], args[p]) :
                  /\ request[Frame(p)] = AloneRequest(op[p], args[p], order)
                  /\ ret[Frame(p)] = AloneReturn(op[p], args[p], order)

\* C9: with calls interleaved on one Client, no step writes the Client or the
\* Endpoints registry, no call shares its maps or its request with another,
\* and each call builds the request and returns the result and error it
\* would running alone against the same response.
C9_InterleavedCallsAreIndependent ==
    /\ [][client' = client /\ Endpoints' = Endpoints]_vars
    /\ []CallsAreIsolated

\* Two different operations are under way at once: one has returned while
\* the other has built its request and not sent it.
C9_Witness ==
    /\ pc["a"] = "done"
    /\ pc["b"] = "send"
    /\ op["a"] = "Disposable"
    /\ op["b"] = "VerifyMultiple"
    /\ args["b"].urlCallback # <<>>
    /\ server.fail = "none"

\* C10: of IsStarting, IsProcessing and IsCompleted at most one is true: the
\* matching one for "starting", "processing" and "completed", and none for
\* any other status, the empty one and case variants included.
C10_StatusPredicatesExclusive ==
    \A p \in Callers :
        (pc[p] = "inspected" /\ op[p] = "CheckJobStatus") =>
            LET st == Result(p).Status IN
            /\ seen[p].starting   <=> st = "starting"
            /\ seen[p].processing <=> st = "processing"
            /\ seen[p].completed  <=> st = "completed"
            /\ Cardinality({x \in {"s", "p", "c"} :
                   \/ x = "s" /\ seen[p].starting
                   \/ x = "p" /\ seen[p].processing
                   \/ x = "c" /\ seen[p].completed}) <= 1
            /\ st \notin {"starting", "processing", "completed"}
                  => ~(seen[p].starting \/ seen[p].processing \/ seen[p].completed)

\* A job status in another case was read: none of the three holds.
C10_Witness ==
    \E p \in Callers :
        /\ pc[p] = "inspected"
        /\ op[p] = "CheckJobStatus"
        /\ Result(p).Status = "Completed"
        /\ ~seen[p].starting /\ ~seen[p].processing /\ ~seen[p].completed

\* C11: whatever the outcome of a call (the request cannot be built, the
\* round trip fails, the body is empty, the body is not valid JSON, the body
\* is valid JSON), the result returned is nil iff the error returned is not
\* nil: never a result together with an error, never neither.
C11_ResultNilIffError ==
    \A p \in Callers :
        Returned(p) => ((Result(p) = NilResult) <=> (Err(p) # NoError))

\* A call whose round trip failed has returned: callService gave an error,
\* and the call returns no result and an error.
C11_Witness ==
    \E p \in Callers :
        /\ Returned(p)
        /\ Sent(p)
        /\ server.fail = "read"
        /\ reply[Frame(p)].err # NoError
        /\ Result(p) = NilResult
        /\ Err(p) # NoError

=============================================================================
